---- MODULE Spec2Model ----
(***************************************************************************)
(* A model of profs.py: the path set (Paths), the metadata record          *)
(* (StatObject) and the snapshot (FileSystem) with its walk, export and     *)
(* import.  Strings and file contents are sequences of byte values, so     *)
(* that prefix tests, slicing, stripping, decimal text and the fixed-width *)
(* record layout behave as in the source.                                  *)
(***************************************************************************)
EXTENDS Integers, Sequences, FiniteSets, TLC

(***************************************************************************)
(* Characters and strings                                                  *)
(***************************************************************************)

\* ord() of the characters the model's strings are written with
Ord(c) ==
  CASE c = "\n" -> 10 [] c = " " -> 32 [] c = "." -> 46 [] c = "/" -> 47
    [] c = "0" -> 48 [] c = "1" -> 49 [] c = "2" -> 50 [] c = "3" -> 51
    [] c = "a" -> 97 [] c = "b" -> 98 [] c = "c" -> 99 [] c = "d" -> 100
    [] c = "l" -> 108 [] c = "m" -> 109 [] c = "q" -> 113
    [] c = "x" -> 120 [] c = "y" -> 121 [] c = "z" -> 122

\* a string literal, written as a tuple of one-character strings
S(cs) == [i \in 1..Len(cs) |-> Ord(cs[i])]

\* "\n", "/", "." and ".."
NL == <<10>>
SEP == <<47>>
DOT == <<46>>
DOTDOT == <<46, 46>>

\* a local variable: x is computed once and the rest of the code reads it
Bind(x, Rest(_)) == CHOOSE y \in { Rest(v) : v \in {x} } : TRUE

\* the characters str.strip() removes
Whitespace == {9, 10, 11, 12, 13, 32}

\* s[n:]
DropPrefix(s, n) == IF n >= Len(s) THEN <<>> ELSE SubSeq(s, n + 1, Len(s))

\* s[:n]
TakePrefix(s, n) == IF n >= Len(s) THEN s ELSE SubSeq(s, 1, n)

\* s.startswith(p)
StartsWith(s, p) == Len(p) <= Len(s) /\ SubSeq(s, 1, Len(p)) = p

RECURSIVE LStrip(_)
LStrip(s) ==
  IF s # <<>> /\ Head(s) \in Whitespace THEN LStrip(Tail(s)) ELSE s

RECURSIVE RStrip(_)
RStrip(s) ==
  IF s # <<>> /\ s[Len(s)] \in Whitespace
  THEN RStrip(SubSeq(s, 1, Len(s) - 1)) ELSE s

\* str.strip()
Strip(s) == RStrip(LStrip(s))

\* s.split(sep) for a one-character separator
RECURSIVE Split(_, _)
Split(s, sep) ==
  IF s = <<>> THEN << <<>> >>
  ELSE LET r == Split(Tail(s), sep)
       IN  IF Head(s) = sep THEN << <<>> >> \o r
           ELSE << <<Head(s)>> \o Head(r) >> \o Tail(r)

\* '/'.join(comps)
RECURSIVE JoinComps(_)
JoinComps(comps) ==
  IF comps = <<>> THEN <<>>
  ELSE IF Len(comps) = 1 THEN comps[1]
  ELSE comps[1] \o SEP \o JoinComps(Tail(comps))

\* '{}'.format(n) for n >= 0
RECURSIVE Dec(_)
Dec(n) == IF n < 10 THEN <<48 + n>> ELSE Dec(n \div 10) \o <<48 + (n % 10)>>

IsDigit(b) == b >= 48 /\ b <= 57

RECURSIVE DigitsValue(_)
DigitsValue(s) ==
  IF s = <<>> THEN 0 ELSE 10 * DigitsValue(SubSeq(s, 1, Len(s) - 1)) + (s[Len(s)] - 48)

\* int(text): surrounding whitespace is ignored; anything but decimal digits
\* raises ValueError (signs and underscores are not written by export)
ParseInt(text) ==
  Bind(Strip(text), LAMBDA t :
    IF t # <<>> /\ \A i \in 1..Len(t) : IsDigit(t[i])
    THEN [ok |-> TRUE, value |-> DigitsValue(t)]
    ELSE [ok |-> FALSE, value |-> 0])

(***************************************************************************)
(* os.path                                                                 *)
(***************************************************************************)

IsAbs(p) == StartsWith(p, SEP)

\* os.path.join(a, b)
PathJoin(a, b) ==
  IF IsAbs(b) THEN b
  ELSE IF a = <<>> \/ a[Len(a)] = 47 THEN a \o b
  ELSE a \o SEP \o b

\* the component loop of os.path.normpath
RECURSIVE NormComps(_, _, _)
NormComps(comps, acc, rooted) ==
  IF comps = <<>> THEN acc
  ELSE LET c == Head(comps)
           rest == Tail(comps)
       IN  IF c = <<>> \/ c = DOT THEN NormComps(rest, acc, rooted)
           ELSE IF c # DOTDOT \/ (~rooted /\ acc = <<>>)
                   \/ (acc # <<>> /\ acc[Len(acc)] = DOTDOT)
                THEN NormComps(rest, Append(acc, c), rooted)
           ELSE IF acc # <<>>
                THEN NormComps(rest, SubSeq(acc, 1, Len(acc) - 1), rooted)
           ELSE NormComps(rest, acc, rooted)

\* initial_slashes of os.path.normpath
InitialSlashes(p) ==
  IF ~IsAbs(p) THEN 0
  ELSE IF StartsWith(p, <<47, 47>>) /\ ~StartsWith(p, <<47, 47, 47>>) THEN 2
  ELSE 1

\* os.path.normpath(p)
NormPath(p) ==
  IF p = <<>> THEN DOT
  ELSE Bind(InitialSlashes(p), LAMBDA slashes :
       Bind(TakePrefix(<<47, 47>>, slashes)
              \o JoinComps(NormComps(Split(p, 47), <<>>, slashes > 0)),
            LAMBDA out : IF out = <<>> THEN DOT ELSE out))

\* the working directory of the process
Cwd == <<47>>

\* os.path.abspath(p)
AbsPath(p) == NormPath(IF IsAbs(p) THEN p ELSE PathJoin(Cwd, p))

\* os.path.dirname(p) of a normalized absolute path
RECURSIVE DirName(_)
DirName(p) ==
  IF Len(p) <= 1 THEN SEP
  ELSE IF p[Len(p)] = 47
       THEN (IF Len(p) = 1 THEN SEP ELSE SubSeq(p, 1, Len(p) - 1))
       ELSE DirName(SubSeq(p, 1, Len(p) - 1))

\* os.path.basename(p)
RECURSIVE BaseName(_)
BaseName(p) ==
  IF p = <<>> \/ p[Len(p)] = 47 THEN <<>>
  ELSE BaseName(SubSeq(p, 1, Len(p) - 1)) \o <<p[Len(p)]>>

(***************************************************************************)
(* The file system the program runs on                                     *)
(***************************************************************************)

NoTarget == <<>>

Dir(p, d, ok) ==
  [path |-> p, mode |-> 16877, dev |-> d, gid |-> 0, uid |-> 0,
   mtime |-> 7, ctime |-> 9, size |-> 4096, target |-> NoTarget, listable |-> ok]

Reg(p, d, sz) ==
  [path |-> p, mode |-> 33188, dev |-> d, gid |-> 100, uid |-> 1000,
   mtime |-> 5, ctime |-> 6, size |-> sz, target |-> NoTarget, listable |-> FALSE]

Lnk(p, d, t) ==
  [path |-> p, mode |-> 41471, dev |-> d, gid |-> 0, uid |-> 1000,
   mtime |-> 3, ctime |-> 3, size |-> Len(t), target |-> t, listable |-> FALSE]

\* /x holding regular file a (10 bytes), directory b and regular file b/c
\* (20 bytes); /xy/z is outside /x although its path starts with "/x"
TreeSizes ==
  { Dir(S(<<"/">>), 1, TRUE),
    Dir(S(<<"/", "x">>), 1, TRUE),
    Reg(S(<<"/", "x", "/", "a">>), 1, 10),
    Dir(S(<<"/", "x", "/", "b">>), 1, TRUE),
    Reg(S(<<"/", "x", "/", "b", "/", "c">>), 1, 20),
    Dir(S(<<"/", "x", "y">>), 1, TRUE),
    Reg(S(<<"/", "x", "y", "/", "z">>), 1, 3) }

\* /x holding a mount point m of another device with a file d in it, a
\* symbolic link l back to /x, and a directory b that cannot be listed
TreeMounts ==
  { Dir(S(<<"/">>), 1, TRUE),
    Dir(S(<<"/", "x">>), 1, TRUE),
    Dir(S(<<"/", "x", "/", "m">>), 2, TRUE),
    Reg(S(<<"/", "x", "/", "m", "/", "d">>), 2, 5),
    Lnk(S(<<"/", "x", "/", "l">>), 1, S(<<"/", "x">>)),
    Dir(S(<<"/", "x", "/", "b">>), 1, FALSE) }

\* /x holding one regular file whose name is a single newline
TreeNewlineName ==
  { Dir(S(<<"/">>), 1, TRUE),
    Dir(S(<<"/", "x">>), 1, TRUE),
    Reg(S(<<"/", "x", "/", "\n">>), 1, 1) }

\* /x holding one regular file whose name has a newline inside it
TreeNewlineInside ==
  { Dir(S(<<"/">>), 1, TRUE),
    Dir(S(<<"/", "x">>), 1, TRUE),
    Reg(S(<<"/", "x", "/", "a", "\n", "1">>), 1, 1) }

Trees == {TreeSizes, TreeMounts, TreeNewlineName, TreeNewlineInside}

Exists(fsys, p) == \E e \in fsys : e.path = p

\* os.stat(p) that follows a symbolic link to its target
StatFollow(fsys, p) ==
  IF (CHOOSE e \in fsys : e.path = p).target # NoTarget
     /\ Exists(fsys, (CHOOSE e \in fsys : e.path = p).target)
  THEN CHOOSE t \in fsys : t.path = (CHOOSE e \in fsys : e.path = p).target
  ELSE CHOOSE e \in fsys : e.path = p

\* os.stat(p, follow_symlinks=False) of an existing entry
LStat(fsys, p) == CHOOSE e \in fsys : e.path = p

\* stat.S_ISDIR, stat.S_ISREG, stat.S_ISLNK: the file-type bits of st_mode
S_ISDIR(mode) == (mode \div 4096) % 16 = 4
S_ISREG(mode) == (mode \div 4096) % 16 = 8
S_ISLNK(mode) == (mode \div 4096) % 16 = 10

\* os.listdir(p): the names of the entries directly inside p
ListDir(fsys, p) ==
  { BaseName(e.path) : e \in { f \in fsys : f.path # p /\ DirName(f.path) = p } }

\* the entries at or below p
Below(fsys, p) ==
  { e \in fsys : e.path = p \/ StartsWith(e.path, IF p = SEP THEN SEP ELSE p \o SEP) }

\* the component loop of os.path.realpath: "." and "" are skipped, ".."
\* steps to the parent of what is resolved so far, a symbolic link is
\* replaced by its target (the trees' targets are canonical paths)
RECURSIVE JoinRealPath(_, _, _)
JoinRealPath(fsys, cur, comps) ==
  IF comps = <<>> THEN cur
  ELSE IF Head(comps) = <<>> \/ Head(comps) = DOT
       THEN JoinRealPath(fsys, cur, Tail(comps))
  ELSE IF Head(comps) = DOTDOT
       THEN JoinRealPath(fsys, DirName(cur), Tail(comps))
  ELSE Bind(PathJoin(cur, Head(comps)), LAMBDA cand :
         IF Exists(fsys, cand) /\ S_ISLNK(LStat(fsys, cand).mode)
         THEN JoinRealPath(fsys, LStat(fsys, cand).target, Tail(comps))
         ELSE JoinRealPath(fsys, cand, Tail(comps)))

\* os.path.realpath(p)
RealPath(fsys, p) ==
  AbsPath(JoinRealPath(fsys, SEP, Split(IF IsAbs(p) THEN p ELSE PathJoin(Cwd, p), 47)))

HasNul(p) == \E i \in 1..Len(p) : p[i] = 0

(***************************************************************************)
(* class Paths                                                             *)
(***************************************************************************)

\* the prefix test of Paths.add
UnderBase(canonical_path, pbase) == StartsWith(canonical_path, pbase)

\* the end of Paths.add: the canonical path is cut to its part after the
\* base when relative_only is set, "" becomes ".", and the set takes it
PathsKeep(canonical_path, pbase, relonly, pset) ==
  IF relonly /\ ~UnderBase(canonical_path, pbase)
  THEN [ok |-> FALSE, err |-> "ValueError", paths |-> pset]
  ELSE Bind(IF relonly THEN DropPrefix(canonical_path, Len(pbase) + 1)
            ELSE canonical_path,
            LAMBDA rel :
              [ok |-> TRUE, err |-> "",
               paths |-> pset \cup {IF rel = <<>> THEN DOT ELSE rel}])

\* Paths.add(path) on the path set `pset`: the new set, or the error raised
PathsAdd(fsys, pbase, relonly, pset, rawpath) ==
  IF HasNul(Strip(rawpath))
  \* realpath raises ValueError; the handler calls realpath(path) again
  THEN [ok |-> FALSE, err |-> "ValueError", paths |-> pset]
  ELSE Bind(RealPath(fsys, Strip(rawpath)), LAMBDA canonical_path :
         PathsKeep(canonical_path, pbase, relonly, pset))

(***************************************************************************)
(* class StatObject                                                        *)
(***************************************************************************)

\* a StatObject that stores the identity counter after its increment
StatObjectInitNext(st, ino) ==
  [mode |-> st.mode, inode |-> ino + 1, gid |-> st.gid, uid |-> st.uid,
   mtime |-> st.mtime, ctime |-> st.ctime, size |-> st.size]

\* StatObject(stat_result=st, inode=ino): the seven recorded fields
StatObjectInit(st, ino) ==
  [mode |-> st.mode, inode |-> ino, gid |-> st.gid, uid |-> st.uid,
   mtime |-> st.mtime, ctime |-> st.ctime, size |-> st.size]

\* StatObject(data=data): __init__ calls self.unserialize(self, data), one
\* argument more than unserialize takes, so the call raises TypeError
StatObjectFromData(data) == [ok |-> FALSE, err |-> "TypeError", value |-> <<>>]

RECURSIVE Pow256(_)
Pow256(k) == IF k = 0 THEN 1 ELSE 256 * Pow256(k - 1)

\* the little-endian bytes of v in a field w bytes wide (values below 2^31)
LE(v, w) ==
  [i \in 1..w |-> IF i <= 4 THEN (v \div Pow256(i - 1)) % 256
                  ELSE IF v < 0 THEN 255 ELSE 0]

\* the width of struct.pack('IIIIlll', ...) and the slice import takes
RecordWidth == 40

\* StatObject.serialize(): struct.pack('IIIIlll', mode, inode, gid, uid,
\* mtime, ctime, size) with native sizes, four 4-byte and three 8-byte fields
Serialize(so) ==
  LE(so.mode, 4) \o LE(so.inode, 4) \o LE(so.gid, 4) \o LE(so.uid, 4)
    \o LE(so.mtime, 8) \o LE(so.ctime, 8) \o LE(so.size, 8)

\* a byte-wise or
RECURSIVE OrByte(_, _)
OrByte(a, b) ==
  IF a = 0 /\ b = 0 THEN 0
  ELSE (IF a % 2 = 1 \/ b % 2 = 1 THEN 1 ELSE 0) + 2 * OrByte(a \div 2, b \div 2)

\* b1 ^ b2 on two byte values
RECURSIVE XorByte(_, _)
XorByte(a, b) ==
  IF a = 0 /\ b = 0 THEN 0
  ELSE ((a + b) % 2) + 2 * XorByte(a \div 2, b \div 2)

\* zip(serialized, other.serialize()): as long as the shorter of the two
ZipLen(s1, s2) == IF Len(s1) <= Len(s2) THEN Len(s1) ELSE Len(s2)

\* StatObject.delta(other): `other` is <<>> for None, or << a StatObject >>
Delta(so, other) ==
  IF other = <<>> THEN Serialize(so)
  ELSE [k \in 1..ZipLen(Serialize(so), Serialize(other[1])) |->
          XorByte(Serialize(so)[k], Serialize(other[1])[k])]

(***************************************************************************)
(* The program's inputs                                                    *)
(***************************************************************************)

\* args.base after os.path.abspath
BaseDir == S(<<"/", "x">>)

\* the raw path lists handed to Paths (stdin lines keep their newline)
RawLists ==
  { <<>>,
    << S(<<"/", "x", "/", "a">>), S(<<"/", "x", "/", "b">>) >>,
    << S(<<"/", "x", "\n">>) >>,
    << S(<<"/", "x", "/", "b", "/", "c">>), S(<<"/", "x", "/", "b">>) >>,
    << S(<<"/", "x", "/", "a">>), S(<<"/", "x", "y", "/", "z">>) >>,
    << S(<<"/", "x", "/", "b", "/", ".", ".", "/", "a">>), S(<<"/", "x", "/", "q">>) >>,
    << S(<<"/", "x", "/", "m">>), S(<<"/", "x", "/", "l">>) >>,
    << S(<<"/", "x", "/", "a">>) \o <<0>> \o S(<<"q">>) >>,
    << S(<<"/", "x", "/", "b">>), S(<<"/", "x">>) >> }

\* args.maxsize: absent, or a size limit
MaxSizes == { <<>>, <<15>> }

NoFile == [exists |-> FALSE, data |-> <<>>]

\* a snapshot file of no node followed by one more byte
SeedLeftover == [exists |-> TRUE, data |-> Dec(0) \o NL \o S(<<"q">>)]

\* a snapshot file of one node, named a, whose record section has 3 bytes
SeedShort ==
  [exists |-> TRUE,
   data |-> Dec(1) \o NL \o S(<<"a">>) \o NL \o Dec(0) \o NL \o <<1, 2, 3>>]

\* what may be at the snapshot's file name before the program runs: nothing,
\* the file of an empty snapshot, or a file whose record section has too
\* many or too few bytes
SeedDisks ==
  { NoFile, [exists |-> TRUE, data |-> Dec(0) \o NL], SeedLeftover, SeedShort }

\* the identities of the records handed to StatObject.delta
MaxDeltaInode == 2

\* the records delta is called on: one per entry of the trees and identity
DeltaRecords ==
  { StatObjectInit(e, i) : e \in UNION Trees, i \in 0..MaxDeltaInode }

\* the entries that may vanish while the walk runs
MaxUnlink == 1

\* the processes run one after the other on the same disk
MaxRuns == 2

\* FileSystem instances constructed in one process (specification SpecTwo)
MaxInstances == 2

(***************************************************************************)
(* State                                                                   *)
(***************************************************************************)

VARIABLES
  fs,            \* the entries that exist on the file system
  unlinked,      \* how many entries have vanished since the program started
  disk,          \* the file at the snapshot's name
  relative_only, \* Paths.relative_only
  create,        \* FileSystem(create=...)
  follow,        \* self.follow
  bailout,       \* self.bailout
  maxsize,       \* self.maxsize
  raw,           \* paths_list still to be added by Paths.__init__
  paths,         \* Paths.paths
  pc,            \* where the process is
  err,           \* the exception that ended it
  inode,         \* self.inode
  names,         \* FileSystem.names, in insertion order
  stat_objects,  \* FileSystem.stat_objects
  dev,           \* self.dev
  stack,         \* the active calls of _init_from_paths, innermost last
  pending,       \* the directory _init_from_paths is about to list
  run,           \* the number of the running process
  instance,      \* the number of the FileSystem instance in this process
  exported,      \* history: what export_fs wrote from
  first,         \* history: the first instance when the second was constructed
  origin,        \* history: the stat_result each record was built from
  diff,          \* a call of StatObject.delta: its arguments and its result
  last           \* history: what the last step did

vars ==
  << fs, unlinked, disk, relative_only, create, follow, bailout, maxsize, raw,
     paths, pc, err, inode, names, stat_objects, dev, stack, pending, run,
     instance, exported, first, origin, diff, last >>

NoPending == [relative_path |-> <<>>, abs_path |-> <<>>]
NoExport == [done |-> FALSE, inode |-> 0, names |-> <<>>, records |-> <<>>]
NoFirst == [inode |-> 0, names |-> <<>>, stat_objects |-> <<>>]
NoDiff == [called |-> FALSE, self |-> <<>>, other |-> <<>>, result |-> <<>>]
NoStep == [op |-> "none", name |-> <<>>, path |-> <<>>, outcome |-> "none"]

Init ==
  /\ fs \in Trees
  /\ unlinked = 0
  /\ disk \in SeedDisks
  /\ relative_only \in BOOLEAN
  /\ create \in BOOLEAN
  /\ follow \in BOOLEAN
  /\ bailout \in BOOLEAN
  /\ maxsize \in MaxSizes
  /\ raw \in RawLists
  /\ paths = {}
  /\ pc = "paths"
  /\ err = ""
  /\ inode = 0
  /\ names = <<>>
  /\ stat_objects = <<>>
  /\ dev = 0
  /\ stack = <<>>
  /\ pending = NoPending
  /\ run = 1
  /\ instance = 1
  /\ exported = NoExport
  /\ first = NoFirst
  /\ origin = <<>>
  /\ diff = NoDiff
  /\ last = NoStep

(***************************************************************************)
(* class FileSystem: the name map and new_node                             *)
(***************************************************************************)

\* name in self.names
NamesHas(ns, n) == \E i \in 1..Len(ns) : ns[i].name = n

\* self.names[name]
NamesGet(ns, n) == ns[CHOOSE i \in 1..Len(ns) : ns[i].name = n].inode

\* self.names[name] = v: a new key goes last, a known key keeps its place
NamesPut(ns, n, v) ==
  IF NamesHas(ns, n)
  THEN [i \in 1..Len(ns) |-> IF ns[i].name = n THEN [name |-> n, inode |-> v] ELSE ns[i]]
  ELSE Append(ns, [name |-> n, inode |-> v])

\* a new_node that forgets self.inode += 1
NewNodeReuse(ns, ino, bail, n) ==
  IF NamesHas(ns, n)
  THEN [raised |-> bail, none |-> TRUE, result |-> 0, inode |-> ino, names |-> ns]
  ELSE [raised |-> FALSE, none |-> FALSE, result |-> ino, inode |-> ino,
        names |-> NamesPut(ns, n, ino)]

\* a new_node that, without bailout, gives a known name a new identity
NewNodeRenumber(ns, ino, bail, n) ==
  IF NamesHas(ns, n) /\ bail
  THEN [raised |-> TRUE, none |-> TRUE, result |-> 0, inode |-> ino, names |-> ns]
  ELSE [raised |-> FALSE, none |-> FALSE, result |-> ino, inode |-> ino + 1,
        names |-> NamesPut(ns, n, ino)]

\* FileSystem.new_node(name): raises on a duplicate when bailout is set,
\* returns None on a duplicate otherwise, else hands out the next inode
NewNode(ns, ino, bail, n) ==
  IF NamesHas(ns, n)
  THEN [raised |-> bail, none |-> TRUE, result |-> 0, inode |-> ino, names |-> ns]
  ELSE [raised |-> FALSE, none |-> FALSE, result |-> ino, inode |-> ino + 1,
        names |-> NamesPut(ns, n, ino)]

\* self.base_len, set by FileSystem.__init__
BaseLen(b) == IF b = SEP THEN 1 ELSE Len(b) + 1

(***************************************************************************)
(* class FileSystem: the walk                                              *)
(***************************************************************************)

\* a walk without the device test
OtherDeviceNever(st, d) == FALSE

\* st_dev != self.dev
OtherDevice(st, d) == st.dev # d

\* a walk without the size test
TooLargeNever(mx, st) == FALSE

\* maxsize is not None and S_ISREG(st_mode) and st_size > maxsize
TooLarge(mx, st) == mx # <<>> /\ S_ISREG(st.mode) /\ st.size > mx[1]

\* S_ISDIR(st_mode) and self.follow
Descends(st, fol) == S_ISDIR(st.mode) /\ fol

\* a walk whose directory test is under the else of `if inode is None`
AfterNodeOnlyNew(st, fol, none) == ~none /\ Descends(st, fol)

\* the directory test that follows the new_node branch, at the level of the
\* size test: it is reached whether new_node returned None or an identity
AfterNode(st, fol, none) == Descends(st, fol)

\* a walk that re-raises FileNotFoundError whatever bailout is
MissingErrorAlways(bail, nested) ==
  IF nested THEN "AssertionError" ELSE "FileNotFoundError"

\* except FileNotFoundError: if self.bailout: raise.  What leaves the walk
\* when os.stat finds no entry: nothing without bailout; with it, the
\* FileNotFoundError, which the listing handler of a calling pass turns into
\* an AssertionError
MissingError(bail, nested) ==
  IF ~bail THEN ""
  ELSE IF nested THEN "AssertionError"
  ELSE "FileNotFoundError"

\* the rest of one pass of the loop of _init_from_paths, from the prefix
\* test on, up to the listing of a directory: what it decides and what it
\* leaves in the instance
VisitAt(fsys, d, ns, ino, objs, bail, fol, mx, nested, relative_path, abs_path, canonical_path) ==
  LET same == [outcome |-> "", err |-> "", names |-> ns, inode |-> ino,
               stat_objects |-> objs, descend |-> FALSE,
               name |-> DropPrefix(canonical_path, BaseLen(BaseDir)),
               relative_path |-> relative_path, abs_path |-> abs_path,
               canonical_path |-> canonical_path]
  IN  IF ~StartsWith(canonical_path, BaseDir)
      THEN [same EXCEPT !.outcome = "outside", !.err = "AssertionError"]
      ELSE IF ~Exists(fsys, canonical_path)
      \* FileNotFoundError: re-raised under bailout; a caller's listing
      \* handler turns it into an AssertionError
      THEN [same EXCEPT !.outcome = "missing", !.err = MissingError(bail, nested)]
      ELSE Bind(LStat(fsys, canonical_path), LAMBDA st :
             IF OtherDevice(st, d)
             THEN [same EXCEPT !.outcome = "otherdevice"]
             ELSE IF TooLarge(mx, st)
             THEN [same EXCEPT !.outcome = "toolarge",
                               !.descend = Descends(st, fol)]
             ELSE Bind(NewNode(ns, ino, bail, same.name), LAMBDA nn :
                    IF nn.raised
                    THEN [same EXCEPT !.outcome = "duplicate", !.err = "ValueError"]
                    ELSE IF nn.none
                    THEN [same EXCEPT !.outcome = "duplicate",
                                      !.descend = AfterNode(st, fol, TRUE)]
                    ELSE [same EXCEPT !.outcome = "recorded",
                                      !.names = nn.names,
                                      !.inode = nn.inode,
                                      !.stat_objects =
                                         Append(objs, StatObjectInit(st, nn.result)),
                                      !.descend = AfterNode(st, fol, FALSE)]))

\* one pass of the loop of _init_from_paths over `path`: the paths it
\* computes, then the rest of the pass
VisitPath(fsys, frame, path, d, ns, ino, objs, bail, fol, mx, nested) ==
  Bind(IF frame.hascwd THEN PathJoin(frame.cwd, path) ELSE path,
       LAMBDA relative_path :
         Bind(PathJoin(BaseDir, relative_path), LAMBDA abs_path :
           Bind(AbsPath(abs_path), LAMBDA canonical_path :
             VisitAt(fsys, d, ns, ino, objs, bail, fol, mx, nested,
                     relative_path, abs_path, canonical_path))))

\* the calls of _init_from_paths whose loop is exhausted return
RECURSIVE Settle(_)
Settle(stk) ==
  IF stk = <<>> THEN <<>>
  ELSE IF stk[Len(stk)].todo = <<>> THEN Settle(SubSeq(stk, 1, Len(stk) - 1))
  ELSE stk

\* the orders in which a set may be iterated or a directory listed
Orders(set) ==
  { f \in [1..Cardinality(set) -> set] :
      \A i, j \in 1..Cardinality(set) : i # j => f[i] # f[j] }

(***************************************************************************)
(* class FileSystem: export_fs and import_fs                               *)
(***************************************************************************)

\* an export that opens the file with 'w'
ExportOpenNeverFails(d) == FALSE

\* open(self.name, 'x') fails when the file exists
ExportOpenFails(d) == d.exists

\* the count line
CountLine(ino) == Dec(ino) \o NL

\* the two lines written per name, in the name map's order
RECURSIVE NameLines(_)
NameLines(ns) ==
  IF ns = <<>> THEN <<>>
  ELSE ns[1].name \o NL \o Dec(ns[1].inode) \o NL \o NameLines(Tail(ns))

\* b''.join(so.serialize() for so in self.stat_objects)
RECURSIVE RecordBytes(_)
RecordBytes(objs) ==
  IF objs = <<>> THEN <<>> ELSE Serialize(objs[1]) \o RecordBytes(Tail(objs))

\* the assertion in the loop of export_fs: '\n' not in self.names
ExportAssertFails(ns) == ns # <<>> /\ NamesHas(ns, NL)

\* export_fs(): the error raised, if any, and the file left behind
ExportFs(d, ino, ns, objs) ==
  IF ExportOpenFails(d)
  THEN [err |-> "FileExistsError", disk |-> d]
  ELSE IF ExportAssertFails(ns)
  THEN [err |-> "AssertionError", disk |-> [exists |-> TRUE, data |-> CountLine(ino)]]
  ELSE [err |-> "",
        disk |-> [exists |-> TRUE,
                  data |-> CountLine(ino) \o NameLines(ns) \o RecordBytes(objs)]]

\* whether the bytes decode as UTF-8 (lead byte and continuation bytes)
RECURSIVE Utf8Valid(_)
Utf8Valid(s) ==
  IF s = <<>> THEN TRUE
  ELSE LET b == Head(s)
           more == IF b < 128 THEN 0
                   ELSE IF b >= 194 /\ b <= 223 THEN 1
                   ELSE IF b >= 224 /\ b <= 239 THEN 2
                   ELSE IF b >= 240 /\ b <= 244 THEN 3
                   ELSE 0 - 1
       IN  /\ more >= 0
           /\ Len(s) > more
           /\ \A i \in 2..(more + 1) : s[i] >= 128 /\ s[i] <= 191
           /\ Utf8Valid(DropPrefix(s, more + 1))

\* the index of the first newline at or after pos, or 0
RECURSIVE FindNewline(_, _)
FindNewline(data, pos) ==
  IF pos > Len(data) THEN 0
  ELSE IF data[pos] = 10 THEN pos
  ELSE FindNewline(data, pos + 1)

\* f.readline() at pos: the line with its newline, and the next position
ReadLine(data, pos) ==
  IF pos > Len(data) THEN [line |-> <<>>, next |-> pos]
  ELSE Bind(FindNewline(data, pos), LAMBDA nl :
         IF nl = 0
         THEN [line |-> SubSeq(data, pos, Len(data)), next |-> Len(data) + 1]
         ELSE [line |-> SubSeq(data, pos, nl), next |-> nl + 1])

\* the first loop of import_fs: k name/inode line pairs read into the map
RECURSIVE ReadPairs(_, _, _, _)
ReadPairs(data, pos, k, ns) ==
  IF k = 0 THEN [ok |-> TRUE, names |-> ns, next |-> pos]
  ELSE Bind(ReadLine(data, pos), LAMBDA l1 :
       Bind(ReadLine(data, l1.next), LAMBDA l2 :
       Bind(ParseInt(l2.line), LAMBDA v :
         IF ~v.ok THEN [ok |-> FALSE, names |-> ns, next |-> l2.next]
         ELSE ReadPairs(data, l2.next, k - 1,
                        NamesPut(ns, Strip(l1.line), v.value)))))

\* the second loop of import_fs: record i is built from sos[40*i : 40*i+40]
\* and stored at index i of the record list
RECURSIVE ReadRecords(_, _, _, _)
ReadRecords(sos, i, count, objs) ==
  IF i >= count THEN [err |-> "", stat_objects |-> objs]
  ELSE Bind(StatObjectFromData(TakePrefix(DropPrefix(sos, RecordWidth * i),
                                          RecordWidth)),
            LAMBDA so :
              IF ~so.ok THEN [err |-> so.err, stat_objects |-> objs]
              ELSE IF i >= Len(objs) THEN [err |-> "IndexError", stat_objects |-> objs]
              ELSE ReadRecords(sos, i + 1, count, [objs EXCEPT ![i + 1] = so.value]))

\* import_fs() under a locale whose encoding is UTF-8 (utf8) or an 8-bit one:
\* the error raised, if any, and what is left in the instance.  The file is
\* opened as text and is shorter than one read buffer, so bytes that do not
\* decode fail the first readline()
ImportFs(d, ino, ns, objs, utf8) ==
  LET same == [err |-> "", inode |-> ino, names |-> ns, stat_objects |-> objs]
  IN  IF ~d.exists THEN [same EXCEPT !.err = "FileNotFoundError"]
      ELSE IF utf8 /\ ~Utf8Valid(d.data) THEN [same EXCEPT !.err = "UnicodeDecodeError"]
      ELSE Bind(ReadLine(d.data, 1), LAMBDA l :
           Bind(ParseInt(l.line), LAMBDA c :
             IF ~c.ok THEN [same EXCEPT !.err = "ValueError"]
             ELSE Bind(ReadPairs(d.data, l.next, c.value, ns), LAMBDA prs :
                    IF ~prs.ok
                    THEN [same EXCEPT !.err = "ValueError", !.inode = c.value,
                                      !.names = prs.names]
                    ELSE Bind(ReadRecords(DropPrefix(d.data, prs.next - 1), 0,
                                          c.value, objs),
                              LAMBDA rr :
                                [err |-> rr.err, inode |-> c.value,
                                 names |-> prs.names,
                                 stat_objects |-> rr.stat_objects]))))

(***************************************************************************)
(* Actions                                                                 *)
(***************************************************************************)

config == << relative_only, create, follow, bailout, maxsize >>
history == << exported, first, origin >>

\* Paths.__init__: self.add(path) for the next path of paths_list
AddPath ==
  /\ pc = "paths"
  /\ raw # <<>>
  /\ \E r \in {PathsAdd(fs, RealPath(fs, BaseDir), relative_only, paths, Head(raw))} :
         /\ paths' = r.paths
         /\ raw' = Tail(raw)
         /\ pc' = IF r.ok THEN "paths" ELSE "error"
         /\ err' = r.err
         /\ last' = [op |-> "add", name |-> <<>>,
                     path |-> IF HasNul(Strip(Head(raw))) THEN <<>>
                              ELSE RealPath(fs, Strip(Head(raw))),
                     outcome |-> IF r.ok THEN "added" ELSE "rejected"]
  /\ UNCHANGED << fs, unlinked, disk, config, inode, names, stat_objects, dev,
                  stack, pending, run, instance, history >>
  /\ UNCHANGED diff

\* what FileSystem.__init__ starts: init_from_paths over list(paths) up to
\* the first pass of the loop, or import_fs
StartInstance(order) ==
  IF create
  THEN LET stk == Settle(<< [hascwd |-> FALSE, cwd |-> <<>>, todo |-> order] >>)
       IN  /\ dev' = LStat(fs, AbsPath(BaseDir)).dev
           /\ stack' = stk
           /\ pc' = IF stk = <<>> THEN "export" ELSE "walk"
  ELSE /\ pc' = "import"
       /\ UNCHANGED << dev, stack >>

\* fs = FileSystem(base, create, paths=list(paths), ...)
Construct ==
  /\ pc = "paths"
  /\ raw = <<>>
  /\ \E order \in Orders(paths) : StartInstance(order)
  /\ last' = [NoStep EXCEPT !.op = "construct"]
  /\ UNCHANGED << fs, unlinked, disk, config, raw, paths, err, inode, names,
                  stat_objects, pending, run, instance, history >>
  /\ UNCHANGED diff

\* one pass of the loop of _init_from_paths
Visit ==
  /\ pc = "walk"
  /\ \E v \in {VisitPath(fs, stack[Len(stack)], Head(stack[Len(stack)].todo),
                          dev, names, inode, stat_objects, bailout, follow,
                          maxsize, Len(stack) > 1)},
        rest \in {[stack EXCEPT ![Len(stack)].todo = Tail(@)]} :
         /\ names' = v.names
         /\ inode' = v.inode
         /\ stat_objects' = v.stat_objects
         /\ err' = v.err
         /\ last' = [op |-> "visit", name |-> v.name, path |-> v.canonical_path,
                     outcome |-> v.outcome]
         /\ origin' = IF v.outcome = "recorded"
                      THEN Append(origin, LStat(fs, v.canonical_path))
                      ELSE origin
         /\ IF v.err # ""
            THEN /\ pc' = "error"
                 /\ UNCHANGED << stack, pending >>
            ELSE IF v.descend
            THEN /\ pc' = "list"
                 /\ stack' = rest
                 /\ pending' = [relative_path |-> v.relative_path,
                                abs_path |-> v.abs_path]
            ELSE /\ stack' = Settle(rest)
                 /\ pc' = IF Settle(rest) = <<>> THEN "export" ELSE "walk"
                 /\ UNCHANGED pending
  /\ UNCHANGED << fs, unlinked, disk, config, raw, paths, dev, run, instance,
                  exported, first >>
  /\ UNCHANGED diff

\* children = os.listdir(abs_path) and the call of _init_from_paths on them
List ==
  /\ pc = "list"
  /\ \E d \in {AbsPath(pending.abs_path)} :
         IF ~Exists(fs, d)
         \* FileNotFoundError: assert False
         THEN /\ pc' = "error"
              /\ err' = "AssertionError"
              /\ last' = [op |-> "list", name |-> <<>>, path |-> d, outcome |-> "missing"]
              /\ UNCHANGED stack
         ELSE IF ~LStat(fs, d).listable
         \* PermissionError: the directory is skipped
         THEN /\ stack' = Settle(stack)
              /\ pc' = IF Settle(stack) = <<>> THEN "export" ELSE "walk"
              /\ last' = [op |-> "list", name |-> <<>>, path |-> d, outcome |-> "denied"]
              /\ UNCHANGED err
         ELSE \E order \in Orders(ListDir(fs, d)) :
                LET stk == Settle(Append(stack, [hascwd |-> TRUE,
                                                 cwd |-> pending.relative_path,
                                                 todo |-> order]))
                IN  /\ stack' = stk
                    /\ pc' = IF stk = <<>> THEN "export" ELSE "walk"
                    /\ last' = [op |-> "list", name |-> <<>>, path |-> d,
                                outcome |-> "listed"]
                    /\ UNCHANGED err
  /\ pending' = NoPending
  /\ UNCHANGED << fs, unlinked, disk, config, raw, paths, inode, names,
                  stat_objects, dev, run, instance, history >>
  /\ UNCHANGED diff

\* another process removes an entry below the base while the walk runs
Unlink ==
  /\ pc \in {"walk", "list"}
  /\ unlinked < MaxUnlink
  /\ \E e \in fs :
       /\ StartsWith(e.path, BaseDir \o SEP)
       /\ fs' = fs \ Below(fs, e.path)
  /\ unlinked' = unlinked + 1
  /\ last' = [NoStep EXCEPT !.op = "unlink"]
  /\ UNCHANGED << disk, config, raw, paths, pc, err, inode, names, stat_objects,
                  dev, stack, pending, run, instance, history >>
  /\ UNCHANGED diff

\* self.export_fs()
Export ==
  /\ pc = "export"
  /\ \E r \in {ExportFs(disk, inode, names, stat_objects)} :
         /\ disk' = r.disk
         /\ err' = r.err
         /\ pc' = IF r.err = "" THEN "done" ELSE "error"
         /\ exported' = IF r.err = ""
                        THEN [done |-> TRUE, inode |-> inode, names |-> names,
                              records |-> [i \in 1..Len(stat_objects) |->
                                             Serialize(stat_objects[i])]]
                        ELSE exported
         /\ last' = [op |-> "export", name |-> <<>>, path |-> disk.data,
                     outcome |-> IF r.err = "" THEN "written" ELSE "failed"]
  /\ UNCHANGED << fs, unlinked, config, raw, paths, inode, names, stat_objects,
                  dev, stack, pending, run, instance, first, origin >>
  /\ UNCHANGED diff

\* self.import_fs()
Import ==
  /\ pc = "import"
  /\ \E utf8 \in BOOLEAN :
       \E r \in {ImportFs(disk, inode, names, stat_objects, utf8)} :
           /\ inode' = r.inode
           /\ names' = r.names
           /\ stat_objects' = r.stat_objects
           /\ err' = r.err
           /\ pc' = IF r.err = "" THEN "done" ELSE "error"
           /\ last' = [op |-> "import", name |-> <<>>, path |-> <<>>,
                       outcome |-> IF r.err = "" THEN "loaded" ELSE "failed"]
  /\ UNCHANGED << fs, unlinked, disk, config, raw, paths, dev, stack, pending,
                  run, instance, history >>
  /\ UNCHANGED diff

\* the program is run again, without --create, on the same snapshot name:
\* a new process, whose class attributes are fresh
NewProcess ==
  /\ pc \in {"done", "error"}
  /\ run < MaxRuns
  /\ run' = run + 1
  /\ instance' = 1
  /\ create' = FALSE
  /\ raw' = <<>>
  /\ paths' = {}
  /\ pc' = "paths"
  /\ err' = ""
  /\ inode' = 0
  /\ names' = <<>>
  /\ stat_objects' = <<>>
  /\ dev' = 0
  /\ stack' = <<>>
  /\ pending' = NoPending
  /\ first' = NoFirst
  /\ origin' = <<>>
  /\ last' = [NoStep EXCEPT !.op = "start"]
  /\ UNCHANGED << fs, unlinked, disk, relative_only, follow, bailout, maxsize,
                  exported >>
  /\ UNCHANGED diff

\* a caller constructs a second FileSystem in the same process: names and
\* stat_objects are attributes of the class, which the new instance finds as
\* the first one left them; inode is read from the class, where it is 0
SecondInstance ==
  /\ pc = "done"
  /\ instance < MaxInstances
  /\ instance' = instance + 1
  /\ first' = [inode |-> inode, names |-> names, stat_objects |-> stat_objects]
  /\ inode' = 0
  /\ \E cr \in BOOLEAN :
       /\ create' = cr
       /\ IF cr
          THEN \E order \in Orders(paths) :
                 LET stk == Settle(<< [hascwd |-> FALSE, cwd |-> <<>>, todo |-> order] >>)
                 IN  /\ dev' = LStat(fs, AbsPath(BaseDir)).dev
                     /\ stack' = stk
                     /\ pc' = IF stk = <<>> THEN "export" ELSE "walk"
          ELSE /\ pc' = "import"
               /\ UNCHANGED << dev, stack >>
  /\ last' = [NoStep EXCEPT !.op = "construct"]
  /\ UNCHANGED << fs, unlinked, disk, relative_only, follow, bailout, maxsize,
                  raw, paths, err, names, stat_objects, pending, run, exported,
                  origin >>
  /\ UNCHANGED diff

Next ==
  \/ AddPath
  \/ Construct
  \/ Visit
  \/ List
  \/ Unlink
  \/ Export
  \/ Import
  \/ NewProcess

Spec == Init /\ [][Next]_vars

\* the same program, with callers that construct a second instance
NextTwo == Next \/ SecondInstance

SpecTwo == Init /\ [][NextTwo]_vars

(***************************************************************************)
(* Properties                                                              *)
(***************************************************************************)

\* the names of a name map, and its (name, identity) pairs
NameSet(ns) == { ns[k].name : k \in 1..Len(ns) }
IdSet(ns) == { ns[k].inode : k \in 1..Len(ns) }
NameMap(ns) == { << ns[k].name, ns[k].inode >> : k \in 1..Len(ns) }

\* a snapshot was built by a completed walk: the walk is over and the
\* instance is at, or past, its export
WalkCompleted ==
  /\ create
  /\ \/ pc \in {"export", "done"}
     \/ pc = "error" /\ last.op = "export"

\* C1: round trip. When a process imports the file that an earlier process
\* built by a completed walk and wrote with export_fs, the import succeeds,
\* the imported name map equals the exported one, and the record list has
\* the exported length with, at each index, a record that serializes to the
\* exported bytes.
C1_RoundTrip ==
  (exported.done /\ ~create /\ last.op = "import")
    => /\ pc = "done"
       /\ NameMap(names) = NameMap(exported.names)
       /\ Len(stat_objects) = Len(exported.records)
       /\ \A i \in 1..Len(stat_objects) :
            Serialize(stat_objects[i]) = exported.records[i]

\* C2: identity density. In a snapshot that a walk builds, at every step and
\* for every choice of root paths and flags, the identities in the name map
\* are exactly 0 .. count-1 where count is the number of names: no gap, no
\* repeat, none outside the range; the identity counter equals that count.
C2_IdentityDensity ==
  create
    => /\ IdSet(names) = 0..(Len(names) - 1)
       /\ Cardinality(IdSet(names)) = Len(names)
       /\ inode = Len(names)

\* a finished snapshot of at least three names
C2_Witness == create /\ pc = "done" /\ Len(names) >= 3

\* C3: identity is the record index. After every visit step the record list
\* has as many entries as identities were assigned, the record at index i
\* carries identity i and holds the fields of the entry whose relative name
\* maps to i, and no two names map to one identity.
C3_IdentityIsRecordIndex ==
  create
    => /\ Len(stat_objects) = inode
       /\ Len(origin) = Len(stat_objects)
       /\ \A i \in 1..Len(stat_objects) :
            /\ stat_objects[i].inode = i - 1
            /\ stat_objects[i].mode = origin[i].mode
            /\ stat_objects[i].gid = origin[i].gid
            /\ stat_objects[i].uid = origin[i].uid
            /\ stat_objects[i].mtime = origin[i].mtime
            /\ stat_objects[i].ctime = origin[i].ctime
            /\ stat_objects[i].size = origin[i].size
            /\ \E k \in 1..Len(names) :
                 /\ names[k].inode = i - 1
                 /\ names[k].name = DropPrefix(origin[i].path, BaseLen(BaseDir))
       /\ \A j, k \in 1..Len(names) :
            names[j].inode = names[k].inode => j = k

\* a visit step has just recorded a second entry and the walk goes on
C3_Witness ==
  /\ create
  /\ pc = "walk"
  /\ last.op = "visit"
  /\ last.outcome = "recorded"
  /\ Len(stat_objects) >= 2

\* the pass of the walk that is about to run reaches new_node with a name
\* that already has an identity
ReachesKnownName ==
  /\ pc = "walk"
  /\ LET top == stack[Len(stack)]
         relative_path == IF top.hascwd THEN PathJoin(top.cwd, Head(top.todo))
                          ELSE Head(top.todo)
         canonical_path == AbsPath(PathJoin(BaseDir, relative_path))
     IN  /\ StartsWith(canonical_path, BaseDir)
         /\ Exists(fs, canonical_path)
         /\ LStat(fs, canonical_path).dev = dev
         /\ ~TooLarge(maxsize, LStat(fs, canonical_path))
         /\ NamesHas(names, DropPrefix(canonical_path, BaseLen(BaseDir)))

\* C4: duplicate-name policy. When a pass of the walk reaches a name that
\* already has an identity: with bailout the walk aborts there with the
\* duplicate error (a ValueError); without bailout the walk is not aborted,
\* and the name map, the record list and the identity counter are left as
\* they were, so the name keeps its first identity and record and gets no
\* second one. No later step of a walk changes an identity or a record
\* already given.
C4_DuplicatePolicy ==
  [][ /\ (ReachesKnownName /\ last'.op = "visit")
        => IF bailout
           THEN /\ pc' = "error"
                /\ err' = "ValueError"
                /\ names' = names
                /\ stat_objects' = stat_objects
           ELSE /\ pc' \in {"walk", "list", "export"}
                /\ err' = ""
                /\ names' = names
                /\ stat_objects' = stat_objects
                /\ inode' = inode
      /\ (pc \in {"walk", "list"})
        => /\ Len(names') >= Len(names)
           /\ Len(stat_objects') >= Len(stat_objects)
           /\ \A k \in 1..Len(names) : names'[k] = names[k]
           /\ \A k \in 1..Len(stat_objects) : stat_objects'[k] = stat_objects[k]
    ]_vars

\* without bailout, the last pass of a walk met a known name and the walk
\* ran to its end
C4_Witness ==
  /\ create
  /\ ~bailout
  /\ pc = "export"
  /\ last.op = "visit"
  /\ last.outcome = "duplicate"
  /\ last.name = S(<<"b", "/", "c">>)
  /\ Len(names) = 2

\* the entries of another device than the base's
OffDevice == { e \in fs : e.dev # dev }

\* C5: device boundary. In a walk, no record is captured from an entry whose
\* device differs from the base's, nor from an entry below such an entry;
\* the walk never lists such an entry and never walks the children of one,
\* also when directories are followed.
C5_DeviceBoundary ==
  (create /\ pc # "paths")
    => /\ \A i \in 1..Len(origin) :
            /\ origin[i].dev = dev
            /\ \A e \in OffDevice : ~StartsWith(origin[i].path, e.path \o SEP)
       /\ (last.op = "visit" /\ last.outcome = "otherdevice") => pc # "list"
       /\ pc = "list"
            => \A e \in OffDevice : e.path # AbsPath(pending.abs_path)
       /\ \A f \in 1..Len(stack) :
            stack[f].hascwd
              => \A e \in OffDevice :
                   e.path # AbsPath(PathJoin(BaseDir, stack[f].cwd))

\* the walk, following directories, has just met a directory of another
\* device
C5_Witness ==
  /\ create
  /\ follow
  /\ last.op = "visit"
  /\ last.outcome = "otherdevice"
  /\ Exists(fs, last.path)
  /\ S_ISDIR(LStat(fs, last.path).mode)
  /\ LStat(fs, last.path).dev # dev

\* no recorded regular file is larger than maxsize
NoOversizeRecorded ==
  (create /\ maxsize # <<>>)
    => \A i \in 1..Len(stat_objects) :
         ~(S_ISREG(stat_objects[i].mode) /\ stat_objects[i].size > maxsize[1])

\* the directory or small enough regular file of the base's device that the
\* last pass of the walk reached is recorded
ReachedIsRecorded ==
  (/\ create
   /\ last.op = "visit"
   /\ last.outcome \notin {"outside", "missing"}
   /\ Exists(fs, last.path)
   /\ LStat(fs, last.path).dev = dev
   /\ \/ S_ISDIR(LStat(fs, last.path).mode)
      \/ /\ S_ISREG(LStat(fs, last.path).mode)
         /\ maxsize # <<>> => LStat(fs, last.path).size <= maxsize[1])
    => /\ NamesHas(names, last.name)
       /\ \E i \in 1..Len(origin) : origin[i].path = last.path

\* a pass that meets an oversize file leaves every node as it was
OversizeKeepsNodes ==
  (pc = "walk" /\ last'.op = "visit" /\ last'.outcome = "toolarge")
    => /\ names' = names
       /\ stat_objects' = stat_objects
       /\ inode' = inode

\* the tree of the example: /x with a (10 bytes), b and b/c (20 bytes),
\* unchanged while it is walked, maxsize 15, directories followed
SizeExample ==
  /\ WalkCompleted
  /\ fs = TreeSizes
  /\ maxsize = <<15>>
  /\ follow

\* C6: size filtering, the walk of the example being started on the
\* entries a and b of the base. No recorded regular file is larger than
\* maxsize; directories and regular files of at most maxsize that the walk
\* reaches on the base's device are recorded; an oversize file changes no
\* node; and in the example the snapshot holds exactly the names a and b,
\* count = 2.
C6_SizeFiltering ==
  /\ [](NoOversizeRecorded /\ ReachedIsRecorded)
  /\ [][OversizeKeepsNodes]_vars
  /\ []((SizeExample /\ paths \in { {S(<<"a">>), S(<<"b">>)},
                                   {S(<<"/", "x", "/", "a">>),
                                    S(<<"/", "x", "/", "b">>)} })
          => /\ NameSet(names) = {S(<<"a">>), S(<<"b">>)}
             /\ inode = 2)

\* the walk of the example, started on a and b, ends on the oversize b/c
C6_Witness ==
  /\ SizeExample
  /\ pc = "export"
  /\ paths = {S(<<"/", "x", "/", "a">>), S(<<"/", "x", "/", "b">>)}
  /\ last.op = "visit"
  /\ last.outcome = "toolarge"
  /\ last.name = S(<<"b", "/", "c">>)
  /\ inode = 2

\* C6 as stated, the walk of the example being started on the base itself
\* or on its entries: the snapshot holds exactly the names a and b, count = 2
C6_Original ==
  /\ NoOversizeRecorded
  /\ ReachedIsRecorded
  /\ (SizeExample /\ paths \in { {DOT}, {BaseDir},
                                 {S(<<"a">>), S(<<"b">>)},
                                 {S(<<"/", "x", "/", "a">>),
                                  S(<<"/", "x", "/", "b">>)} })
       => /\ NameSet(names) = {S(<<"a">>), S(<<"b">>)}
          /\ inode = 2

\* C7: exporting to a file name that already exists fails with
\* FileExistsError and leaves the file as it was.
C7_ExportExisting ==
  [][ (pc = "export" /\ disk.exists)
        => /\ pc' = "error"
           /\ err' = "FileExistsError"
           /\ disk' = disk ]_vars

\* a walk that recorded nodes failed to export over the file that was there
C7_Witness ==
  /\ create
  /\ pc = "error"
  /\ err = "FileExistsError"
  /\ last.op = "export"
  /\ inode >= 1
  /\ disk = [exists |-> TRUE, data |-> Dec(0) \o NL]

\* C8: relative-name well-formedness. Every name in the name map of a walk
\* is the base sentinel or a non-empty string, and does not begin with a
\* path separator.
C8_WellFormedNames ==
  create
    => \A k \in 1..Len(names) :
         \/ names[k].name = DOT
         \/ /\ names[k].name # <<>>
            /\ names[k].name[1] # 47

\* C9: instance ownership. A second instance constructed in a process starts
\* from an empty name map and an empty record list, and what it does leaves
\* the name map and the record list that the first instance holds as they
\* were when the first instance finished.
C9_InstanceOwnership ==
  instance > 1
    => /\ last.op = "construct" => (names = <<>> /\ stat_objects = <<>>)
       /\ first.names = <<>> => names = <<>>
       /\ first.stat_objects = <<>> => stat_objects = <<>>

\* C10: in relative-only mode, adding a path whose canonical form is neither
\* the base directory nor below it fails with the outside-base error (a
\* ValueError) and leaves the path set as it was; /xy/z is outside base /x.
C10_PathOutsideBase ==
  [][ (/\ pc = "paths"
       /\ raw # <<>>
       /\ relative_only
       /\ ~HasNul(Strip(Head(raw)))
       /\ RealPath(fs, Strip(Head(raw))) # RealPath(fs, BaseDir)
       /\ ~StartsWith(RealPath(fs, Strip(Head(raw))), RealPath(fs, BaseDir) \o SEP))
        => /\ pc' = "error"
           /\ err' = "ValueError"
           /\ paths' = paths ]_vars

\* C11: missing-entry policy. When os.stat of the path a pass visits finds
\* no entry: with bailout the walk aborts there (the FileNotFoundError, or
\* the AssertionError a calling pass makes of it); without bailout the pass
\* adds no name, no record and no identity, raises nothing, and the walk
\* keeps every remaining sibling and every remaining root path to visit.
C11_MissingPolicy ==
  [][ (pc = "walk" /\ last'.op = "visit" /\ last'.outcome = "missing")
        => IF bailout
           THEN /\ pc' = "error"
                /\ err' \in {"FileNotFoundError", "AssertionError"}
           ELSE /\ err' = ""
                /\ names' = names
                /\ stat_objects' = stat_objects
                /\ inode' = inode
                /\ stack' = Settle([stack EXCEPT ![Len(stack)].todo = Tail(@)])
                /\ pc' = IF stack' = <<>> THEN "export" ELSE "walk"
    ]_vars

\* without bailout, a pass found its entry gone, siblings remain to visit
\* and the walk is still running
C11_Witness ==
  /\ create
  /\ ~bailout
  /\ pc = "walk"
  /\ last.op = "visit"
  /\ last.outcome = "missing"
  /\ Len(stack) >= 1
  /\ stack[Len(stack)].todo # <<>>

\* C12: fatal failures are all-or-nothing. A step that aborts a create
\* operation, in the walk or in the export, leaves no file at the snapshot's
\* name that was not there before the step; a step that aborts an import
\* leaves the name map, the record list and the count as they were before
\* the import.
C12_AllOrNothing ==
  [][ /\ (create /\ pc \in {"walk", "list", "export"} /\ pc' = "error")
        => disk' = disk
      /\ (~create /\ pc = "import" /\ pc' = "error")
        => /\ names' = names
           /\ stat_objects' = stat_objects
           /\ inode' = inode
    ]_vars

\* what import_fs reads of a file before its record section: the count and
\* the name lines; then the bytes that are left for the records
ImportHeader(d) ==
  Bind(ReadLine(d.data, 1), LAMBDA l :
    Bind(ParseInt(l.line), LAMBDA c :
      IF ~c.ok THEN [ok |-> FALSE, count |-> 0, next |-> 1]
      ELSE Bind(ReadPairs(d.data, l.next, c.value, <<>>), LAMBDA prs :
             [ok |-> prs.ok, count |-> c.value, next |-> prs.next])))

RecordSection(d) == DropPrefix(d.data, ImportHeader(d).next - 1)

\* C13: import rejects a file whose record section is not exactly count
\* times the record width: when bytes are left over after the count-th
\* record, or fewer bytes than count records are present, the import fails.
C13_RecordSection ==
  (/\ ~create
   /\ last.op = "import"
   /\ disk.exists
   /\ ImportHeader(disk).ok
   /\ Len(RecordSection(disk)) # ImportHeader(disk).count * RecordWidth)
    => pc = "error"

\* the name has a newline somewhere in it
HasNewline(n) == \E j \in 1..Len(n) : n[j] = 10

\* C14: export never writes a name that contains a newline: when a name of
\* the name map has a newline anywhere in it, the export fails, and no file
\* that export wrote holds such a name.
C14_NewlineNames ==
  /\ (/\ create
      /\ last.op = "export"
      /\ \E k \in 1..Len(names) : HasNewline(names[k].name))
       => pc = "error"
  /\ exported.done
       => \A k \in 1..Len(exported.names) : ~HasNewline(exported.names[k].name)

(***************************************************************************)
(* StatObject.delta, called on its own                                     *)
(***************************************************************************)

\* a caller holds a record and, maybe, another one
InitDelta ==
  /\ fs = TreeSizes
  /\ unlinked = 0
  /\ disk = NoFile
  /\ relative_only = FALSE
  /\ create = FALSE
  /\ follow = FALSE
  /\ bailout = FALSE
  /\ maxsize = <<>>
  /\ raw = <<>>
  /\ paths = {}
  /\ pc = "delta"
  /\ err = ""
  /\ inode = 0
  /\ names = <<>>
  /\ stat_objects = <<>>
  /\ dev = 0
  /\ stack = <<>>
  /\ pending = NoPending
  /\ run = 1
  /\ instance = 1
  /\ exported = NoExport
  /\ first = NoFirst
  /\ origin = <<>>
  /\ last = NoStep
  /\ \E r \in DeltaRecords, o \in {<<>>} \cup { <<q>> : q \in DeltaRecords } :
       diff = [NoDiff EXCEPT !.self = r, !.other = o]

\* self.delta(other)
CallDelta ==
  /\ pc = "delta"
  /\ ~diff.called
  /\ diff' = [diff EXCEPT !.called = TRUE, !.result = Delta(diff.self, diff.other)]
  /\ UNCHANGED << fs, unlinked, disk, config, raw, paths, pc, err, inode, names,
                  stat_objects, dev, stack, pending, run, instance, history, last >>

NextDelta == CallDelta

SpecDelta == InitDelta /\ [][NextDelta]_vars

\* bit i of a byte value
Bit(v, i) == (v \div (2 ^ i)) % 2

\* C15: the record difference. delta returns a buffer of one record's width;
\* against another record, each bit of each byte of it is the exclusive-or
\* of the bits of the two records' encodings at that place, so that
\* delta(r, r) is all zero bytes; against no record it is encode(r).
C15_Delta ==
  diff.called
    => /\ Len(diff.result) = RecordWidth
       /\ diff.other = <<>> => diff.result = Serialize(diff.self)
       /\ diff.other # <<>>
            => \A k \in 1..RecordWidth : \A i \in 0..7 :
                 Bit(diff.result[k], i)
                   = (Bit(Serialize(diff.self)[k], i)
                      + Bit(Serialize(diff.other[1])[k], i)) % 2
       /\ diff.other = << diff.self >>
            => \A k \in 1..RecordWidth : diff.result[k] = 0

\* delta was called on a record and itself, the record not being all zero
C15_Witness ==
  /\ diff.called
  /\ diff.other = << diff.self >>
  /\ diff.self.size = 20
  /\ diff.self.inode = 1

\* path[:path.index(chr(0))]
RECURSIVE TruncateNul(_)
TruncateNul(p) ==
  IF p = <<>> \/ Head(p) = 0 THEN <<>> ELSE <<Head(p)>> \o TruncateNul(Tail(p))

\* C16: adding a raw path with an embedded NUL byte succeeds: the path is
\* cut at its first NUL and the canonical form of what is left is what is
\* added to the path set, as for a path given without the NUL.
C16_NulTruncated ==
  [][ (pc = "paths" /\ raw # <<>> /\ HasNul(Strip(Head(raw))))
        => /\ pc' = "paths"
           /\ paths' = PathsAdd(fs, RealPath(fs, BaseDir), relative_only, paths,
                                TruncateNul(Strip(Head(raw)))).paths
    ]_vars

\* C17: without bailout and with directories followed, a pass that skips a
\* directory as a duplicate still goes on to list that directory, and when
\* the listing succeeds every child of the directory is queued for a visit
\* below it.
C17_DuplicateDescended ==
  [][ /\ (/\ pc = "walk"
          /\ ~bailout
          /\ follow
          /\ last'.op = "visit"
          /\ last'.outcome = "duplicate"
          /\ S_ISDIR(LStat(fs, last'.path).mode))
        => /\ pc' = "list"
           /\ AbsPath(pending'.abs_path) = last'.path
      /\ (/\ pc = "list"
          /\ ~bailout
          /\ last.op = "visit"
          /\ last.outcome = "duplicate"
          /\ last'.op = "list"
          /\ last'.outcome = "listed"
          /\ ListDir(fs, last.path) # {})
        => /\ stack' # <<>>
           /\ stack'[Len(stack')].hascwd
           /\ stack'[Len(stack')].cwd = pending.relative_path
           /\ { stack'[Len(stack')].todo[i] :
                  i \in 1..Len(stack'[Len(stack')].todo) } = ListDir(fs, last.path)
           /\ Len(stack'[Len(stack')].todo) = Cardinality(ListDir(fs, last.path))
    ]_vars

\* the walk of /x and /x/b, without bailout and following directories,
\* visits b/c a second time: through the listing of b met as a duplicate,
\* or after it
C17_Witness ==
  /\ create
  /\ ~bailout
  /\ follow
  /\ fs = TreeSizes
  /\ raw = <<>>
  /\ Cardinality(paths) = 2
  /\ last.op = "visit"
  /\ last.outcome = "duplicate"
  /\ last.name = S(<<"b", "/", "c">>)
  /\ Len(names) = 4

\* the path lies inside the directory at d
Inside(p, d) == StartsWith(p, d \o SEP)

\* where the walk looks for a root path
RootPlace(r) == AbsPath(PathJoin(BaseDir, r))

\* no root path lies inside the place of another root path
NoNestedRoots ==
  \A r1, r2 \in paths : ~Inside(RootPlace(r1), RootPlace(r2))

\* every recorded directory has a smaller identity than every recorded entry
\* inside it
ParentBeforeChild ==
  \A i, j \in 1..Len(origin) :
    (S_ISDIR(origin[i].mode) /\ Inside(origin[j].path, origin[i].path))
      => stat_objects[i].inode < stat_objects[j].inode

\* C18: parent before child, for root paths none of which lies inside
\* another: in a snapshot built by the walk, whenever a directory and an
\* entry inside it are both recorded, the directory's identity is smaller
\* than the entry's.
C18_ParentBeforeChild ==
  (create /\ raw = <<>> /\ NoNestedRoots) => ParentBeforeChild

\* a finished walk of two root paths, neither inside the other, recorded
\* directory b and then its entry b/c
C18_Witness ==
  /\ create
  /\ raw = <<>>
  /\ NoNestedRoots
  /\ Cardinality(paths) = 2
  /\ pc = "done"
  /\ \E i, j \in 1..Len(origin) :
       /\ origin[i].path = S(<<"/", "x", "/", "b">>)
       /\ origin[j].path = S(<<"/", "x", "/", "b", "/", "c">>)
       /\ stat_objects[i].inode < stat_objects[j].inode

\* C18 as stated, for any set and order of root paths: whenever a directory
\* and an entry inside it are both recorded, the directory's identity is
\* smaller than the entry's
C18_Original == create => ParentBeforeChild

\* C19: in every file that export wrote, the count of the first line is the
\* number of names and the number of records of the snapshot, and a reader
\* that takes count name/identity line pairs and then count records of the
\* record width has consumed the file exactly.
C19_CountMatches ==
  (create /\ last.op = "export" /\ last.outcome = "written")
    => /\ ImportHeader(disk).ok
       /\ ImportHeader(disk).count = Len(names)
       /\ ImportHeader(disk).count = Len(stat_objects)
       /\ Len(RecordSection(disk)) = ImportHeader(disk).count * RecordWidth

(***************************************************************************)
(* The walk as a running process                                           *)
(***************************************************************************)

\* one run of the program with --create, no file being at the snapshot's
\* name, on a tree that no other process changes
InitLive == Init /\ create /\ disk = NoFile

NextLive ==
  \/ AddPath
  \/ Construct
  \/ Visit
  \/ List
  \/ Export

\* the process that walks is not stopped: a pass or a listing that can run
\* does run
SpecLive == InitLive /\ [][NextLive]_vars /\ WF_vars(Visit) /\ WF_vars(List)

\* the entry at the place the walk is about to list is a symbolic link
ListsSymlink ==
  /\ pc = "list"
  /\ \E e \in fs : e.path = AbsPath(pending.abs_path) /\ S_ISLNK(e.mode)

\* every record made from a symbolic link is the link's own
SymlinkRecordedAsItself ==
  \A i \in 1..Len(origin) :
    (\E e \in fs : e.path = origin[i].path /\ S_ISLNK(e.mode))
      => S_ISLNK(stat_objects[i].mode)

\* C20: the walk terminates. A walk that has started eventually completes
\* (and goes on to export) or aborts, for every modelled tree, root path
\* list and combination of flags; a symbolic link is recorded as itself and
\* is never listed.
C20_WalkTerminates ==
  /\ (create /\ pc \in {"walk", "list"}) ~> (pc \in {"export", "error"})
  /\ [](create => (~ListsSymlink /\ SymlinkRecordedAsItself))

\* a walk that follows directories has recorded the symbolic link /x/l,
\* which points back to the base, and has come to its end
C20_Witness ==
  /\ create
  /\ follow
  /\ pc = "export"
  /\ \E i \in 1..Len(origin) :
       /\ origin[i].path = S(<<"/", "x", "/", "l">>)
       /\ S_ISLNK(stat_objects[i].mode)

====
